---- MODULE Spec2Model ----
(***************************************************************************)
(* The branching history engine (HistoryManager) and the scene graph       *)
(* (Instance, AppState) of the visual interface builder.                   *)
(*                                                                         *)
(* JavaScript values are modelled as follows.  An array is a sequence, a   *)
(* plain object a record, a Set a sequence without duplicates in insertion *)
(* order (the order the spread [...set] produces).  null is the string     *)
(* NULL where an id is expected and the empty sequence where an object is  *)
(* expected.  "undefined" (a failed lookup) is index 0.  Coordinates are   *)
(* integers.                                                               *)
(***************************************************************************)
EXTENDS Integers, Sequences, FiniteSets, TLC

VARIABLES instances, selectedIds, objectCounter, grid, pointer, archivedHistory, lastOp

vars == <<instances, selectedIds, objectCounter, grid, pointer, archivedHistory, lastOp>>

appVars == <<instances, selectedIds, objectCounter>>

histVars == <<grid, pointer, archivedHistory>>

(***************************************************************************)
(* Bounds of the model.                                                    *)
(***************************************************************************)
\* createInstance is offered while objectCounter is below this (history specification)
MaxObjects == 1

\* createInstance is offered while objectCounter is below this (scene specification)
MaxSceneObjects == 2

\* setParent and updateInstancePosition are offered while every coordinate they
\* leave stays within -MaxCoord .. MaxCoord
MaxCoord == 3

\* addState is offered while the grid holds fewer nodes than this
MaxNodes == 5

\* addState is offered while the history holds fewer nodes than this (snapshot specification)
MaxSnapNodes == 2

\* collapseHistory is offered while the archive holds fewer entries than this
MaxArchive == 1

\* SpecArchive: the nodes the history may hold and the collapses offered
MaxArchiveNodes == 5

MaxCollapses == 2

\* SpecLoad: the nodes the history may hold
MaxLoadNodes == 3

\* SpecSelect: the nodes the history may hold
MaxSelectNodes == 2

\* SpecCascade: the entities created
MaxCascadeObjects == 3

NULL == "null"

Truthy(id) == id # NULL

\* the canvas points the callers pass as (x, y)
Points == {[x |-> 1, y |-> 2], [x |-> 3, y |-> 1]}

ScenePoints == {[x |-> 1, y |-> 2], [x |-> 3, y |-> 1]}

(***************************************************************************)
(* Instance                                                                *)
(***************************************************************************)
MintId(n) == "obj-" \o ToString(n)

NewInstance(id, type) ==
    [ id             |-> id,
      type           |-> type,
      localTransform |-> [x |-> 0, y |-> 0],
      worldTransform |-> [x |-> 0, y |-> 0],
      renderMode     |-> [horizontal |-> "relative", vertical |-> "relative"],
      sizing         |-> [width |-> 80, height |-> 80],
      parentId       |-> NULL,
      children       |-> <<>>,
      anchored       |-> FALSE,
      selected       |-> FALSE,
      label          |-> id ]

\* parentWorldTransform: <<>> for null, <<t>> for a transform t
computeWorldTransform(inst, parentWorldTransform) ==
    IF parentWorldTransform # <<>>
    THEN [inst EXCEPT !.worldTransform =
              [x |-> parentWorldTransform[1].x + inst.localTransform.x,
               y |-> parentWorldTransform[1].y + inst.localTransform.y]]
    ELSE [inst EXCEPT !.worldTransform =
              [x |-> inst.localTransform.x, y |-> inst.localTransform.y]]

\* the plain record Instance.toJSON() builds: every field but worldTransform,
\* the nested objects and the children array copied
toJSON(inst) ==
    [ id             |-> inst.id,
      type           |-> inst.type,
      localTransform |-> [x |-> inst.localTransform.x, y |-> inst.localTransform.y],
      renderMode     |-> [horizontal |-> inst.renderMode.horizontal,
                          vertical   |-> inst.renderMode.vertical],
      sizing         |-> [width |-> inst.sizing.width, height |-> inst.sizing.height],
      parentId       |-> inst.parentId,
      children       |-> [i \in 1..Len(inst.children) |-> inst.children[i]],
      anchored       |-> inst.anchored,
      selected       |-> inst.selected,
      label          |-> inst.label ]

\* Instance.fromJSON(data): a new Instance (world transform (0,0)) filled from the
\* record; a legacy record carries "positioning" instead of the two transforms
fromJSON(data) ==
    LET instance == NewInstance(data.id, data.type)
        legacy   == "positioning" \in DOMAIN data
    IN  [ instance EXCEPT
            !.localTransform = IF legacy
                               THEN [x |-> data.positioning.x, y |-> data.positioning.y]
                               ELSE [x |-> data.localTransform.x, y |-> data.localTransform.y],
            !.renderMode     = IF legacy
                               THEN [horizontal |-> data.positioning.modeH,
                                     vertical   |-> data.positioning.modeV]
                               ELSE [horizontal |-> data.renderMode.horizontal,
                                     vertical   |-> data.renderMode.vertical],
            !.sizing         = [width |-> data.sizing.width, height |-> data.sizing.height],
            !.parentId       = IF Truthy(data.parentId) THEN data.parentId ELSE NULL,
            !.children       = IF "children" \in DOMAIN data
                               THEN [i \in 1..Len(data.children) |-> data.children[i]]
                               ELSE <<>>,
            !.anchored       = data.anchored,
            !.selected       = data.selected,
            !.label          = IF data.label # "" THEN data.label ELSE data.id ]

(***************************************************************************)
(* AppState: lookups                                                       *)
(***************************************************************************)
\* instances.findIndex(inst => inst.id === id), 1-based; 0 when there is none
findIndex(insts, id) ==
    IF \E i \in 1..Len(insts) : insts[i].id = id
    THEN CHOOSE i \in 1..Len(insts) :
             /\ insts[i].id = id
             /\ \A j \in 1..(i - 1) : insts[j].id # id
    ELSE 0

\* getInstance(id) as the index of the instance found, 0 for undefined
getInstance(insts, id) == findIndex(insts, id)

includes(seq, v) == \E i \in 1..Len(seq) : seq[i] = v

\* array.filter(e => e !== v)
filterOut(seq, v) == SelectSeq(seq, LAMBDA e : e # v)

\* array.splice(index, 1) with a 0-based index: nothing goes when index >= length
splice1(seq, index) ==
    IF index + 1 \in 1..Len(seq)
    THEN [i \in 1..(Len(seq) - 1) |-> IF i < index + 1 THEN seq[i] ELSE seq[i + 1]]
    ELSE seq

\* Set.add / Set.delete on the insertion-ordered selection
setAdd(sel, id) == IF includes(sel, id) THEN sel ELSE Append(sel, id)

setDelete(sel, id) == filterOut(sel, id)

RECURSIVE newSet(_)
\* new Set(array): the distinct elements in order of first occurrence
newSet(arr) ==
    IF arr = <<>> THEN <<>>
    ELSE setAdd(newSet(SubSeq(arr, 1, Len(arr) - 1)), arr[Len(arr)])

(***************************************************************************)
(* AppState: the scene graph                                               *)
(*                                                                         *)
(* The methods are operators over the application record                   *)
(*   a = [instances, selectedIds, objectCounter]                           *)
(* and return it with the call's outcome added: ret (the return value),    *)
(* cn and sn (the calls of notifyChange and notifySelectionChange made),   *)
(* views (what the listeners of each of these calls found), dead (the      *)
(* Instance objects removed from the array, as they were when removed) and *)
(* overflow (the recursion never returns).                                 *)
(***************************************************************************)
App == [instances |-> instances, selectedIds |-> selectedIds, objectCounter |-> objectCounter]

Begin(a) ==
    [ instances     |-> a.instances,
      selectedIds   |-> a.selectedIds,
      objectCounter |-> a.objectCounter,
      ret           |-> FALSE,
      cn            |-> 0,
      sn            |-> 0,
      views         |-> <<>>,
      dead          |-> <<>>,
      overflow      |-> FALSE ]

\* what a change or selection listener can read when it runs, and what
\* captureState would record at that moment: the entities with their fields,
\* the selection and the counter
observed(r) ==
    [ instances     |-> [i \in 1..Len(r.instances) |-> toJSON(r.instances[i])],
      selectedIds   |-> r.selectedIds,
      objectCounter |-> r.objectCounter ]

notifyChange(r) == [r EXCEPT !.cn = @ + 1, !.views = Append(@, observed(r))]

notifySelectionChange(r) == [r EXCEPT !.sn = @ + 1, !.views = Append(@, observed(r))]

\* some listener of the call ran on a state other than the one the call left
torn(r) == \E k \in 1..Len(r.views) : r.views[k] # observed(r)

\* updateRecursive that does not descend into the children
updateChildren_skip(u, idx, k, path, children) == u

RECURSIVE updateRecursive(_, _, _, _)
RECURSIVE updateChildren(_, _, _, _, _)
\* updateRecursive(instance, parentWorldTransform) on the instance at index idx;
\* path holds the indices of the calls on the stack.  The result is
\* [insts, overflow]: a child that is on the stack again is an endless recursion.
updateRecursive(insts, idx, parentWorldTransform, path) ==
    LET insts1 == [insts EXCEPT ![idx] = computeWorldTransform(@, parentWorldTransform)]
    IN  updateChildren([insts |-> insts1, overflow |-> FALSE], idx, 1, path \cup {idx},
                       insts1[idx].children)

\* instance.children.forEach(childId => ...) from position k on
updateChildren(u, idx, k, path, children) ==
    IF u.overflow \/ k > Len(children) THEN u
    ELSE LET child == getInstance(u.insts, children[k])
         IN  IF child = 0
             THEN updateChildren(u, idx, k + 1, path, children)
             ELSE IF child \in path
                  THEN [u EXCEPT !.overflow = TRUE]
                  ELSE updateChildren(
                           updateRecursive(u.insts, child, <<u.insts[idx].worldTransform>>, path),
                           idx, k + 1, path, children)

RECURSIVE updateRoots_fromEvery(_, _)
\* updateWorldTransforms that starts updateRecursive from every instance
updateRoots_fromEvery(u, k) ==
    IF u.overflow \/ k > Len(u.insts) THEN u
    ELSE updateRoots_fromEvery(updateRecursive(u.insts, k, <<>>, {}), k + 1)

RECURSIVE updateRoots(_, _)
\* roots.forEach(root => updateRecursive(root, null)), roots being the instances
\* whose parentId is null, in array order
updateRoots(u, k) ==
    IF u.overflow \/ k > Len(u.insts) THEN u
    ELSE IF u.insts[k].parentId = NULL
         THEN updateRoots(updateRecursive(u.insts, k, <<>>, {}), k + 1)
         ELSE updateRoots(u, k + 1)

updateWorldTransforms(insts) == updateRoots([insts |-> insts, overflow |-> FALSE], 1)

\* a method's call of this.updateWorldTransforms()
withWorldTransforms(r) ==
    LET u == updateWorldTransforms(r.instances)
    IN  [r EXCEPT !.instances = u.insts, !.overflow = u.overflow]

\* createInstance without this.selectedIds.clear()
createInstance_keepSelection(a, x, y) ==
    LET counter  == a.objectCounter + 1
        created  == NewInstance(MintId(counter), "square")
        placed   == [created EXCEPT !.localTransform = [x |-> x, y |-> y],
                                    !.label = created.id]
        instance == computeWorldTransform(placed, <<>>)
        r        == [Begin(a) EXCEPT !.objectCounter = counter,
                                     !.instances = Append(a.instances, instance),
                                     !.selectedIds = setAdd(a.selectedIds, instance.id),
                                     !.ret = TRUE]
    IN  notifySelectionChange(notifyChange(r))

createInstance(a, x, y) ==
    LET counter  == a.objectCounter + 1
        created  == NewInstance(MintId(counter), "square")
        placed   == [created EXCEPT !.localTransform = [x |-> x, y |-> y],
                                    !.label = created.id]
        instance == computeWorldTransform(placed, <<>>)
        r        == [Begin(a) EXCEPT !.objectCounter = counter,
                                     !.instances = Append(a.instances, instance),
                                     !.selectedIds = setAdd(<<>>, instance.id),
                                     !.ret = TRUE]
    IN  notifySelectionChange(notifyChange(r))

RECURSIVE deleteRec(_, _, _)
RECURSIVE deleteChildren(_, _, _, _)
\* deleteInstance(id) at recursion depth `depth`.  `index` is found before the
\* children are deleted and used after they are.
deleteRec(r, id, depth) ==
    LET index == findIndex(r.instances, id)
    IN  IF index = 0 THEN [r EXCEPT !.ret = FALSE]
        ELSE IF depth > 2 * Len(r.instances) + 2 THEN [r EXCEPT !.overflow = TRUE]
        ELSE
        LET instance == r.instances[index]
            parent   == IF Truthy(instance.parentId)
                        THEN getInstance(r.instances, instance.parentId) ELSE 0
            r1 == IF parent # 0
                  THEN [r EXCEPT !.instances[parent].children = filterOut(@, id)]
                  ELSE r
            r2 == deleteChildren(r1, r1.instances[index].children, 1, depth)
            r3 == [r2 EXCEPT
                     !.dead = IF index \in 1..Len(r2.instances)
                              THEN Append(@, r2.instances[index]) ELSE @,
                     !.instances = splice1(@, index - 1),
                     !.selectedIds = setDelete(@, id),
                     !.ret = TRUE]
        IN  IF r2.overflow THEN r2 ELSE notifySelectionChange(notifyChange(r3))

\* [...instance.children].forEach(childId => this.deleteInstance(childId)) from k on
deleteChildren(r, children, k, depth) ==
    IF r.overflow \/ k > Len(children) THEN r
    ELSE deleteChildren(deleteRec(r, children[k], depth + 1), children, k + 1, depth)

deleteInstance(a, id) == deleteRec(Begin(a), id, 0)

RECURSIVE deleteEach(_, _, _, _)
\* ids.forEach(id => { if (this.deleteInstance(id)) deletedCount++ })
deleteEach(r, ids, k, deletedCount) ==
    IF r.overflow THEN r
    ELSE IF k > Len(ids) THEN [r EXCEPT !.ret = deletedCount]
    ELSE LET d == deleteRec(r, ids[k], 0)
         IN  deleteEach(d, ids, k + 1, IF d.ret THEN deletedCount + 1 ELSE deletedCount)

deleteInstances(a, ids) == deleteEach(Begin(a), ids, 1, 0)

\* setParent leaving the child's localTransform as it was
convertToLocal_keepLocal(insts, child, parent, currentWorld) == insts

\* setParent subtracting the child's world position from the parent's
convertToLocal_reversed(insts, child, parent, currentWorld) ==
    IF parent # 0
    THEN [insts EXCEPT ![child].localTransform =
             [x |-> insts[parent].worldTransform.x - currentWorld.x,
              y |-> insts[parent].worldTransform.y - currentWorld.y]]
    ELSE [insts EXCEPT ![child].localTransform =
             [x |-> currentWorld.x, y |-> currentWorld.y]]

\* setParent's conversion of the child's world position into the space of
\* the new parent (index parent, 0 for none)
convertToLocal(insts, child, parent, currentWorld) ==
    IF parent # 0
    THEN [insts EXCEPT ![child].localTransform =
             [x |-> currentWorld.x - insts[parent].worldTransform.x,
              y |-> currentWorld.y - insts[parent].worldTransform.y]]
    ELSE [insts EXCEPT ![child].localTransform =
             [x |-> currentWorld.x, y |-> currentWorld.y]]

\* setParent that leaves the child in the children list of its old parent
setParent_keepOldParent(a, childId, parentId) ==
    LET insts  == a.instances
        child  == getInstance(insts, childId)
        parent == IF Truthy(parentId) THEN getInstance(insts, parentId) ELSE 0
    IN  IF child = 0 THEN Begin(a)
        ELSE IF Truthy(parentId) /\ parent = 0 THEN Begin(a)
        ELSE
        LET currentWorld == insts[child].worldTransform
            linked    == [insts EXCEPT ![child].parentId = parentId]
            attached  == IF parent # 0 /\ ~includes(linked[parent].children, childId)
                         THEN [linked EXCEPT ![parent].children = Append(@, childId)]
                         ELSE linked
            converted == convertToLocal(attached, child, parent, currentWorld)
            r == withWorldTransforms([Begin(a) EXCEPT !.instances = converted, !.ret = TRUE])
        IN  IF r.overflow THEN r ELSE notifyChange(r)

\* setParent without the test if (parentId && !parent) return false
setParent_noParentCheck(a, childId, parentId) ==
    LET insts  == a.instances
        child  == getInstance(insts, childId)
        parent == IF Truthy(parentId) THEN getInstance(insts, parentId) ELSE 0
    IN  IF child = 0 THEN Begin(a)
        ELSE
        LET currentWorld == insts[child].worldTransform
            oldParent == IF Truthy(insts[child].parentId)
                         THEN getInstance(insts, insts[child].parentId) ELSE 0
            detached  == IF oldParent # 0
                         THEN [insts EXCEPT ![oldParent].children = filterOut(@, childId)]
                         ELSE insts
            linked    == [detached EXCEPT ![child].parentId = parentId]
            attached  == IF parent # 0 /\ ~includes(linked[parent].children, childId)
                         THEN [linked EXCEPT ![parent].children = Append(@, childId)]
                         ELSE linked
            converted == convertToLocal(attached, child, parent, currentWorld)
            r == withWorldTransforms([Begin(a) EXCEPT !.instances = converted, !.ret = TRUE])
        IN  IF r.overflow THEN r ELSE notifyChange(r)

setParent(a, childId, parentId) ==
    LET insts  == a.instances
        child  == getInstance(insts, childId)
        parent == IF Truthy(parentId) THEN getInstance(insts, parentId) ELSE 0
    IN  IF child = 0 THEN Begin(a)
        ELSE IF Truthy(parentId) /\ parent = 0 THEN Begin(a)
        ELSE
        LET currentWorld == insts[child].worldTransform
            oldParent == IF Truthy(insts[child].parentId)
                         THEN getInstance(insts, insts[child].parentId) ELSE 0
            detached  == IF oldParent # 0
                         THEN [insts EXCEPT ![oldParent].children = filterOut(@, childId)]
                         ELSE insts
            linked    == [detached EXCEPT ![child].parentId = parentId]
            attached  == IF parent # 0 /\ ~includes(linked[parent].children, childId)
                         THEN [linked EXCEPT ![parent].children = Append(@, childId)]
                         ELSE linked
            converted == convertToLocal(attached, child, parent, currentWorld)
            r == withWorldTransforms([Begin(a) EXCEPT !.instances = converted, !.ret = TRUE])
        IN  IF r.overflow THEN r ELSE notifyChange(r)

\* updateInstancePosition without the anchored test
updateInstancePosition_ignoreAnchor(a, id, x, y) ==
    LET insts    == a.instances
        instance == getInstance(insts, id)
    IN  IF instance = 0 THEN Begin(a)
        ELSE
        LET parent == IF Truthy(insts[instance].parentId)
                      THEN getInstance(insts, insts[instance].parentId) ELSE 0
            moved  == IF parent # 0
                      THEN [insts EXCEPT ![instance].localTransform =
                               [x |-> x - insts[parent].worldTransform.x,
                                y |-> y - insts[parent].worldTransform.y]]
                      ELSE [insts EXCEPT ![instance].localTransform = [x |-> x, y |-> y]]
            r == withWorldTransforms([Begin(a) EXCEPT !.instances = moved, !.ret = TRUE])
        IN  IF r.overflow THEN r ELSE notifyChange(r)

updateInstancePosition(a, id, x, y) ==
    LET insts    == a.instances
        instance == getInstance(insts, id)
    IN  IF instance = 0 THEN Begin(a)
        ELSE IF insts[instance].anchored THEN Begin(a)
        ELSE
        LET parent == IF Truthy(insts[instance].parentId)
                      THEN getInstance(insts, insts[instance].parentId) ELSE 0
            moved  == IF parent # 0
                      THEN [insts EXCEPT ![instance].localTransform =
                               [x |-> x - insts[parent].worldTransform.x,
                                y |-> y - insts[parent].worldTransform.y]]
                      ELSE [insts EXCEPT ![instance].localTransform = [x |-> x, y |-> y]]
            r == withWorldTransforms([Begin(a) EXCEPT !.instances = moved, !.ret = TRUE])
        IN  IF r.overflow THEN r ELSE notifyChange(r)

updateInstanceMode(a, id, axis, mode) ==
    LET instance == getInstance(a.instances, id)
    IN  IF instance = 0 THEN Begin(a)
        ELSE LET set == IF axis = "h"
                        THEN [a.instances EXCEPT ![instance].renderMode.horizontal = mode]
                        ELSE IF axis = "v"
                        THEN [a.instances EXCEPT ![instance].renderMode.vertical = mode]
                        ELSE a.instances
             IN  notifyChange([Begin(a) EXCEPT !.instances = set, !.ret = TRUE])

\* returns the new anchored flag (and false for a missing id)
toggleAnchor(a, id) ==
    LET instance == getInstance(a.instances, id)
    IN  IF instance = 0 THEN Begin(a)
        ELSE notifyChange([Begin(a) EXCEPT
                 !.instances[instance].anchored = ~a.instances[instance].anchored,
                 !.ret = ~a.instances[instance].anchored])

selectInstance(a, id) ==
    notifySelectionChange([Begin(a) EXCEPT !.selectedIds = setAdd(<<>>, id)])

toggleSelection(a, id) ==
    notifySelectionChange([Begin(a) EXCEPT
        !.selectedIds = IF includes(a.selectedIds, id)
                        THEN setDelete(a.selectedIds, id)
                        ELSE setAdd(a.selectedIds, id)])

addToSelection(a, id) ==
    notifySelectionChange([Begin(a) EXCEPT !.selectedIds = setAdd(a.selectedIds, id)])

clearSelection(a) ==
    notifySelectionChange([Begin(a) EXCEPT !.selectedIds = <<>>])

setSelection(a, ids) ==
    notifySelectionChange([Begin(a) EXCEPT !.selectedIds = newSet(ids)])

(***************************************************************************)
(* Snapshots.  A snapshot is [instances, selectedIds, objectCounter].  An   *)
(* element of its instances array is either a plain record or a live       *)
(* Instance object itself, written [ref |-> id] and read through the live  *)
(* array: what JSON.stringify and Instance.fromJSON see of it is the live  *)
(* object's fields at the time of reading.  An object that leaves the live *)
(* array is never written again, so a reference to it is replaced by its   *)
(* last value.                                                             *)
(***************************************************************************)
IsRef(slot) == "ref" \in DOMAIN slot

\* the plain data of a snapshot element, given the live array
slotData(slot, insts) ==
    IF IsRef(slot) THEN toJSON(insts[findIndex(insts, slot.ref)]) ELSE slot

\* the value JSON.stringify(snapshot) serialises
snapshotData(snap, insts) ==
    [ instances     |-> [i \in 1..Len(snap.instances) |-> slotData(snap.instances[i], insts)],
      selectedIds   |-> snap.selectedIds,
      objectCounter |-> snap.objectCounter ]

\* the snapshot once the objects `gone` (with their last values) have left the live array
retire(snap, gone) ==
    [ snap EXCEPT !.instances =
        [i \in 1..Len(snap.instances) |->
            IF IsRef(snap.instances[i]) /\ findIndex(gone, snap.instances[i].ref) # 0
            THEN toJSON(gone[findIndex(gone, snap.instances[i].ref)])
            ELSE snap.instances[i]] ]

\* captureState keeping the Instance objects themselves: instances.map(i => i)
captureState_shallow(a) ==
    [ instances     |-> [i \in 1..Len(a.instances) |-> [ref |-> a.instances[i].id]],
      selectedIds   |-> [i \in 1..Len(a.selectedIds) |-> a.selectedIds[i]],
      objectCounter |-> a.objectCounter ]

captureState(a) ==
    [ instances     |-> [i \in 1..Len(a.instances) |-> toJSON(a.instances[i])],
      selectedIds   |-> [i \in 1..Len(a.selectedIds) |-> a.selectedIds[i]],
      objectCounter |-> a.objectCounter ]

\* restoreState without this.objectCounter = state.objectCounter
restoreState_keepCounter(a, state) ==
    LET loaded == [i \in 1..Len(state.instances) |-> fromJSON(state.instances[i])]
        r == withWorldTransforms([Begin(a) EXCEPT
                 !.instances = loaded,
                 !.selectedIds = newSet(state.selectedIds),
                 !.dead = a.instances,
                 !.ret = TRUE])
    IN  IF r.overflow THEN r ELSE notifySelectionChange(notifyChange(r))

\* restoreState(state): state is the snapshot's data as read during the call
\* restoreState that sets this.objectCounter = 0
restoreState_resetCounter(a, state) ==
    LET loaded == [i \in 1..Len(state.instances) |-> fromJSON(state.instances[i])]
        r == withWorldTransforms([Begin(a) EXCEPT
                 !.instances = loaded,
                 !.selectedIds = newSet(state.selectedIds),
                 !.objectCounter = 0,
                 !.dead = a.instances,
                 !.ret = TRUE])
    IN  IF r.overflow THEN r ELSE notifySelectionChange(notifyChange(r))

restoreState(a, state) ==
    LET loaded == [i \in 1..Len(state.instances) |-> fromJSON(state.instances[i])]
        r == withWorldTransforms([Begin(a) EXCEPT
                 !.instances = loaded,
                 !.selectedIds = newSet(state.selectedIds),
                 !.objectCounter = state.objectCounter,
                 !.dead = a.instances,
                 !.ret = TRUE])
    IN  IF r.overflow THEN r ELSE notifySelectionChange(notifyChange(r))

(***************************************************************************)
(* JSON.stringify, as the sequence of the text's tokens.  The keys come in *)
(* the order toJSON and captureState write them; a legacy record has       *)
(* "positioning" where the current one has localTransform and renderMode.  *)
(***************************************************************************)
boolText(b) == IF b THEN "true" ELSE "false"

RECURSIVE concat(_)
concat(seqs) == IF seqs = <<>> THEN <<>> ELSE seqs[1] \o concat(Tail(seqs))

stringifyInstance(d) ==
    <<"{", "id", d.id, "type", d.type>>
    \o (IF "positioning" \in DOMAIN d
        THEN <<"positioning", ToString(d.positioning.x), ToString(d.positioning.y),
               d.positioning.modeH, d.positioning.modeV>>
        ELSE <<"localTransform", ToString(d.localTransform.x), ToString(d.localTransform.y),
               "renderMode", d.renderMode.horizontal, d.renderMode.vertical>>)
    \o <<"sizing", ToString(d.sizing.width), ToString(d.sizing.height),
          "parentId", d.parentId, "children", "[">> \o d.children
    \o <<"]", "anchored", boolText(d.anchored), "selected", boolText(d.selected),
          "label", d.label, "}">>

stringify(state) ==
    <<"{", "instances", "[">>
    \o concat([i \in 1..Len(state.instances) |-> stringifyInstance(state.instances[i])])
    \o <<"]", "selectedIds", "[">> \o state.selectedIds
    \o <<"]", "objectCounter", ToString(state.objectCounter), "}">>

(***************************************************************************)
(* HistoryManager.  The methods are operators over the history record      *)
(*   h = [grid, pointer, archivedHistory]                                  *)
(* and the application record a, and return                                *)
(*   [grid, pointer, archivedHistory, hn, app, threw]:                     *)
(* hn counts the calls of notifyListeners, calls lists the callbacks they   *)
(* ran with what each callback found, app is the application after the     *)
(* call (a restoreState result where the method restores), threw says that *)
(* the method ended in a TypeError.  pointer.branch and pointer.time are    *)
(* the 0-based indices of the code; sequences are 1-based.                 *)
(***************************************************************************)
Hist == [grid |-> grid, pointer |-> pointer, archivedHistory |-> archivedHistory]

HBegin(h, a) ==
    [ grid            |-> h.grid,
      pointer         |-> h.pointer,
      archivedHistory |-> h.archivedHistory,
      hn              |-> 0,
      calls           |-> <<>>,
      app             |-> Begin(a),
      threw           |-> FALSE ]

\* this.listeners after two onChange(callback) calls, in the order of the pushes
Listeners == <<"first", "second">>

\* what a callback finds when it runs: the pointer, the size of the grid and
\* of the archive, and the live application
view(hr) ==
    [ pointer         |-> hr.pointer,
      branches        |-> Len(hr.grid),
      archives        |-> Len(hr.archivedHistory),
      objectCounter   |-> hr.app.objectCounter,
      entities        |-> Len(hr.app.instances) ]

\* notifyListeners that walks this.listeners from the last to the first
notifyListeners_reversed(hr) ==
    [hr EXCEPT !.hn = @ + 1,
               !.calls = @ \o [i \in 1..Len(Listeners) |->
                                [listener |-> Listeners[Len(Listeners) + 1 - i],
                                 saw |-> view(hr)]]]

\* this.listeners.forEach(callback => callback())
notifyListeners(hr) ==
    [hr EXCEPT !.hn = @ + 1,
               !.calls = @ \o [i \in 1..Len(Listeners) |->
                                [listener |-> Listeners[i], saw |-> view(hr)]]]

\* grid[branch] && grid[branch][time] for integer arguments
nodeExists(g, branch, time) ==
    /\ branch + 1 \in 1..Len(g)
    /\ time + 1 \in 1..Len(g[branch + 1])

\* array.slice(0, end)
slice0(seq, end) == SubSeq(seq, 1, IF end < Len(seq) THEN end ELSE Len(seq))

\* the constructor's grid: one branch holding the initial snapshot
InitialGrid(a) == << <<[action |-> "Initial State", state |-> captureState(a)]>> >>

\* the test written currentState === nextState: two objects are never identical
unchanged_byIdentity(h, a) == FALSE

\* addState's test JSON.stringify(currentState) === JSON.stringify(nextState)
unchanged(h, a) ==
    LET currentState == h.grid[h.pointer.branch + 1][h.pointer.time + 1].state
        nextState    == captureState(a)
    IN  stringify(snapshotData(currentState, a.instances))
            = stringify(snapshotData(nextState, a.instances))

\* appendAtTip without this.pointer.time++
appendAtTip_noAdvance(hr, newState) ==
    [hr EXCEPT !.grid[hr.pointer.branch + 1] = Append(@, newState)]

\* at the end of the timeline: currentTimeline.push(newState); this.pointer.time++
appendAtTip(hr, newState) ==
    [hr EXCEPT !.grid[hr.pointer.branch + 1] = Append(@, newState),
               !.pointer.time = @ + 1]

\* branchOff copying the prefix slice(0, time), one node short
branchOff_shortPrefix(hr, newState) ==
    LET currentTimeline == hr.grid[hr.pointer.branch + 1]
        newBranch == Append(slice0(currentTimeline, hr.pointer.time), newState)
        pushed    == Append(hr.grid, newBranch)
    IN  [hr EXCEPT !.grid = pushed,
                   !.pointer = [branch |-> Len(pushed) - 1, time |-> Len(newBranch) - 1]]

\* branchOff that cuts the timeline at the pointer and appends there
branchOff_truncate(hr, newState) ==
    LET currentTimeline == hr.grid[hr.pointer.branch + 1]
    IN  [hr EXCEPT !.grid[hr.pointer.branch + 1] =
                       Append(slice0(currentTimeline, hr.pointer.time + 1), newState),
                   !.pointer.time = @ + 1]

\* branchOff that writes the new node over the first node of the copy as well
branchOff_overwriteRoot(hr, newState) ==
    LET currentTimeline == hr.grid[hr.pointer.branch + 1]
        prefix    == slice0(currentTimeline, hr.pointer.time + 1)
        newBranch == Append([prefix EXCEPT ![1] = newState], newState)
        pushed    == Append(hr.grid, newBranch)
    IN  [hr EXCEPT !.grid = pushed,
                   !.pointer = [branch |-> Len(pushed) - 1, time |-> Len(newBranch) - 1]]

\* in the middle of the timeline: a new branch from the prefix up to the pointer
branchOff(hr, newState) ==
    LET currentTimeline == hr.grid[hr.pointer.branch + 1]
        newBranch == Append(slice0(currentTimeline, hr.pointer.time + 1), newState)
        pushed    == Append(hr.grid, newBranch)
    IN  [hr EXCEPT !.grid = pushed,
                   !.pointer = [branch |-> Len(pushed) - 1, time |-> Len(newBranch) - 1]]

addState(h, a, action) ==
    LET newState == [action |-> action, state |-> captureState(a)]
        currentTimeline == h.grid[h.pointer.branch + 1]
    IN  IF unchanged(h, a)
        THEN HBegin(h, a)
        ELSE IF h.pointer.time = Len(currentTimeline) - 1
        THEN notifyListeners(appendAtTip(HBegin(h, a), newState))
        ELSE notifyListeners(branchOff(HBegin(h, a), newState))

\* this.restoreState(this.grid[branch][time].state) followed by notifyListeners()
restoreAt(hr, a) ==
    LET state == hr.grid[hr.pointer.branch + 1][hr.pointer.time + 1].state
    IN  notifyListeners([hr EXCEPT !.app = restoreState(a, snapshotData(state, a.instances))])

\* undo with the restore and the notification outside the guard
undo_restoreOutsideGuard(h, a) ==
    IF h.pointer.time > 0
    THEN restoreAt([HBegin(h, a) EXCEPT !.pointer.time = @ - 1], a)
    ELSE restoreAt(HBegin(h, a), a)

\* undo that moves the pointer to the start of the branch
undo_toStart(h, a) ==
    IF h.pointer.time > 0
    THEN restoreAt([HBegin(h, a) EXCEPT !.pointer.time = 0], a)
    ELSE HBegin(h, a)

undo(h, a) ==
    IF h.pointer.time > 0
    THEN restoreAt([HBegin(h, a) EXCEPT !.pointer.time = @ - 1], a)
    ELSE HBegin(h, a)

\* redo that moves the pointer to the tip of the branch
redo_toTip(h, a) ==
    IF h.pointer.time < Len(h.grid[h.pointer.branch + 1]) - 1
    THEN restoreAt([HBegin(h, a) EXCEPT
                       !.pointer.time = Len(h.grid[h.pointer.branch + 1]) - 1], a)
    ELSE HBegin(h, a)

redo(h, a) ==
    LET currentTimeline == h.grid[h.pointer.branch + 1]
    IN  IF h.pointer.time < Len(currentTimeline) - 1
        THEN restoreAt([HBegin(h, a) EXCEPT !.pointer.time = @ + 1], a)
        ELSE HBegin(h, a)

\* jumpToState that only moves along the active branch
jumpToState_activeOnly(h, a, branch, time) ==
    IF nodeExists(h.grid, branch, time) /\ branch = h.pointer.branch
    THEN restoreAt([HBegin(h, a) EXCEPT !.pointer = [branch |-> branch, time |-> time]], a)
    ELSE HBegin(h, a)

jumpToState(h, a, branch, time) ==
    IF nodeExists(h.grid, branch, time)
    THEN restoreAt([HBegin(h, a) EXCEPT !.pointer = [branch |-> branch, time |-> time]], a)
    ELSE HBegin(h, a)

\* collapseHistory that archives the grid and leaves grid and pointer alone
collapseHistory_keepGrid(h, a, now) ==
    LET archive == [timestamp |-> now, grid |-> h.grid,
                    message |-> "Collapsed " \o ToString(Len(h.grid)) \o " branches."]
    IN  notifyListeners([HBegin(h, a) EXCEPT !.archivedHistory = Append(@, archive)])

\* collapseHistory written this.archivedHistory = [archive]
collapseHistory_replaceArchive(h, a, now) ==
    LET activeTimeline == slice0(h.grid[h.pointer.branch + 1], h.pointer.time + 1)
        archive == [timestamp |-> now, grid |-> h.grid,
                    message |-> "Collapsed " \o ToString(Len(h.grid)) \o " branches."]
    IN  notifyListeners([HBegin(h, a) EXCEPT
            !.archivedHistory = <<archive>>,
            !.grid = <<activeTimeline>>,
            !.pointer = [branch |-> 0, time |-> Len(activeTimeline) - 1]])

\* collapseHistory keeping the whole active branch: this.grid = [this.grid[branch]]
collapseHistory_wholeBranch(h, a, now) ==
    LET activeTimeline == h.grid[h.pointer.branch + 1]
        archive == [timestamp |-> now, grid |-> h.grid,
                    message |-> "Collapsed " \o ToString(Len(h.grid)) \o " branches."]
    IN  notifyListeners([HBegin(h, a) EXCEPT
            !.archivedHistory = Append(@, archive),
            !.grid = <<activeTimeline>>,
            !.pointer = [branch |-> 0, time |-> Len(activeTimeline) - 1]])

\* collapseHistory resetting the pointer's time and leaving its branch
collapseHistory_keepBranch(h, a, now) ==
    LET activeTimeline == slice0(h.grid[h.pointer.branch + 1], h.pointer.time + 1)
        archive == [timestamp |-> now, grid |-> h.grid,
                    message |-> "Collapsed " \o ToString(Len(h.grid)) \o " branches."]
    IN  notifyListeners([HBegin(h, a) EXCEPT
            !.archivedHistory = Append(@, archive),
            !.grid = <<activeTimeline>>,
            !.pointer.time = Len(activeTimeline) - 1])

\* collapseHistory leaving the pointer on the first node of the kept timeline
collapseHistory_rewind(h, a, now) ==
    LET activeTimeline == slice0(h.grid[h.pointer.branch + 1], h.pointer.time + 1)
        archive == [timestamp |-> now, grid |-> h.grid,
                    message |-> "Collapsed " \o ToString(Len(h.grid)) \o " branches."]
    IN  notifyListeners([HBegin(h, a) EXCEPT
            !.archivedHistory = Append(@, archive),
            !.grid = <<activeTimeline>>,
            !.pointer = [branch |-> 0, time |-> 0]])

\* now: the value Date.now() returns
collapseHistory(h, a, now) ==
    LET activeTimeline == slice0(h.grid[h.pointer.branch + 1], h.pointer.time + 1)
        archive == [timestamp |-> now, grid |-> h.grid,
                    message |-> "Collapsed " \o ToString(Len(h.grid)) \o " branches."]
    IN  notifyListeners([HBegin(h, a) EXCEPT
            !.archivedHistory = Append(@, archive),
            !.grid = <<activeTimeline>>,
            !.pointer = [branch |-> 0, time |-> Len(activeTimeline) - 1]])

canUndo(h) == h.pointer.time > 0

canRedo(h) == h.pointer.time < Len(h.grid[h.pointer.branch + 1]) - 1

\* what JSON.parse(JSON.stringify(value)) gives for a grid: every snapshot as plain data
plainGrid(g, insts) ==
    [b \in 1..Len(g) |->
        [t \in 1..Len(g[b]) |->
            [action |-> g[b][t].action, state |-> snapshotData(g[b][t].state, insts)]]]

\* HistoryManager.toJSON() as handleSave writes it and handleLoad reads it back
historyToJSON(h, insts) ==
    [ grid            |-> plainGrid(h.grid, insts),
      pointer         |-> [branch |-> h.pointer.branch, time |-> h.pointer.time],
      archivedHistory |-> [i \in 1..Len(h.archivedHistory) |->
                              [h.archivedHistory[i] EXCEPT !.grid = plainGrid(@, insts)]] ]

\* fromJSON that does not load data.archivedHistory
historyFromJSON_dropArchive(h, a, data) ==
    LET loaded == [HBegin(h, a) EXCEPT
                      !.grid = data.grid,
                      !.pointer = data.pointer,
                      !.archivedHistory = <<>>]
    IN  IF nodeExists(loaded.grid, loaded.pointer.branch, loaded.pointer.time)
        THEN restoreAt(loaded, a)
        ELSE [loaded EXCEPT !.threw = TRUE]

\* HistoryManager.fromJSON(data): the three fields are assigned before the snapshot
\* under the loaded pointer is read; reading a node that is not there is a TypeError
historyFromJSON(h, a, data) ==
    LET loaded == [HBegin(h, a) EXCEPT
                      !.grid = data.grid,
                      !.pointer = data.pointer,
                      !.archivedHistory = IF "archivedHistory" \in DOMAIN data
                                          THEN data.archivedHistory ELSE <<>>]
    IN  IF nodeExists(loaded.grid, loaded.pointer.branch, loaded.pointer.time)
        THEN restoreAt(loaded, a)
        ELSE [loaded EXCEPT !.threw = TRUE]

(***************************************************************************)
(* The state machine.  lastOp records the last call: its name, its return  *)
(* value (FALSE for a method that returns nothing), whether it threw, and  *)
(* the calls it made of notifyListeners (hn), notifyChange (cn),           *)
(* notifySelectionChange (sn) and restoreState (rn), the history callbacks *)
(* it ran (calls), and whether a change or selection listener ran before   *)
(* the call had finished its changes (torn).                               *)
(***************************************************************************)
EmptyApp == [instances |-> <<>>, selectedIds |-> <<>>, objectCounter |-> 0]

\* new AppState(): the HistoryManager is built on the empty state, then
\* this.history.addState('Initial State') runs
Constructed ==
    addState([grid |-> InitialGrid(EmptyApp),
              pointer |-> [branch |-> 0, time |-> 0],
              archivedHistory |-> <<>>],
             EmptyApp, "Initial State")

Init ==
    /\ instances = Constructed.app.instances
    /\ selectedIds = Constructed.app.selectedIds
    /\ objectCounter = Constructed.app.objectCounter
    /\ grid = Constructed.grid
    /\ pointer = Constructed.pointer
    /\ archivedHistory = Constructed.archivedHistory
    /\ lastOp = [op |-> "constructor", ret |-> FALSE, threw |-> FALSE,
                 hn |-> Constructed.hn, cn |-> 0, sn |-> 0, rn |-> 0,
                 calls |-> <<>>, torn |-> FALSE]

retireGrid(g, gone) ==
    [b \in 1..Len(g) |->
        [t \in 1..Len(g[b]) |-> [g[b][t] EXCEPT !.state = retire(@, gone)]]]

retireArchive(arch, gone) ==
    [i \in 1..Len(arch) |-> [arch[i] EXCEPT !.grid = retireGrid(@, gone)]]

\* the state after an AppState method returned r
AppCommit(name, r) ==
    /\ instances' = r.instances
    /\ selectedIds' = r.selectedIds
    /\ objectCounter' = r.objectCounter
    /\ grid' = retireGrid(grid, r.dead)
    /\ archivedHistory' = retireArchive(archivedHistory, r.dead)
    /\ pointer' = pointer
    /\ lastOp' = [op |-> name, ret |-> r.ret, threw |-> r.overflow,
                  hn |-> 0, cn |-> r.cn, sn |-> r.sn, rn |-> 0,
                  calls |-> <<>>, torn |-> torn(r)]

\* the state after a HistoryManager method returned hr
HistCommit(name, hr) ==
    /\ instances' = hr.app.instances
    /\ selectedIds' = hr.app.selectedIds
    /\ objectCounter' = hr.app.objectCounter
    /\ grid' = retireGrid(hr.grid, hr.app.dead)
    /\ archivedHistory' = retireArchive(hr.archivedHistory, hr.app.dead)
    /\ pointer' = hr.pointer
    /\ lastOp' = [op |-> name, ret |-> FALSE, threw |-> hr.threw \/ hr.app.overflow,
                  hn |-> hr.hn, cn |-> hr.app.cn, sn |-> hr.app.sn,
                  rn |-> IF hr.app.ret THEN 1 ELSE 0,
                  calls |-> hr.calls, torn |-> torn(hr.app)]

Labels == {"Move Object"}

Times == {1000}

nodeCount(g) == Len(concat(g))

RECURSIVE archivedNodes(_)
archivedNodes(arch) ==
    IF arch = <<>> THEN 0 ELSE nodeCount(arch[1].grid) + archivedNodes(Tail(arch))

\* the nodes the history holds, in the grid and in the archive
storedNodes == nodeCount(grid) + archivedNodes(archivedHistory)

\* a call that threw leaves the page with the exception; nothing is modelled after it
Running == ~lastOp.threw

\* cap: the bound on objectCounter under which the call is offered
CreateInstance(p, cap) ==
    /\ Running
    /\ objectCounter < cap
    /\ AppCommit("createInstance", createInstance(App, p.x, p.y))

DeleteInstance(id) ==
    /\ Running
    /\ AppCommit("deleteInstance", deleteInstance(App, id))

DeleteInstances(ids) ==
    /\ Running
    /\ AppCommit("deleteInstances", deleteInstances(App, ids))

inRange(t, cap) == t.x \in -cap..cap /\ t.y \in -cap..cap

withinCoords(insts, cap) ==
    \A i \in 1..Len(insts) :
        inRange(insts[i].localTransform, cap) /\ inRange(insts[i].worldTransform, cap)

\* cap: the bound on the coordinates under which the call is offered
SetParent(childId, parentId, cap) ==
    /\ Running
    /\ withinCoords(setParent(App, childId, parentId).instances, cap)
    /\ AppCommit("setParent", setParent(App, childId, parentId))

UpdateInstancePosition(id, p, cap) ==
    /\ Running
    /\ withinCoords(updateInstancePosition(App, id, p.x, p.y).instances, cap)
    /\ AppCommit("updateInstancePosition", updateInstancePosition(App, id, p.x, p.y))

UpdateInstanceMode(id, axis, mode) ==
    /\ Running
    /\ AppCommit("updateInstanceMode", updateInstanceMode(App, id, axis, mode))

ToggleAnchor(id) ==
    /\ Running
    /\ AppCommit("toggleAnchor", toggleAnchor(App, id))

SelectInstance(id) ==
    /\ Running
    /\ AppCommit("selectInstance", selectInstance(App, id))

ToggleSelection(id) ==
    /\ Running
    /\ AppCommit("toggleSelection", toggleSelection(App, id))

AddToSelection(id) ==
    /\ Running
    /\ AppCommit("addToSelection", addToSelection(App, id))

ClearSelection ==
    /\ Running
    /\ AppCommit("clearSelection", clearSelection(App))

SetSelection(ids) ==
    /\ Running
    /\ AppCommit("setSelection", setSelection(App, ids))

\* restoreState(state) called on its own, on a snapshot of the live state
RestoreState(state) ==
    /\ Running
    /\ AppCommit("restoreState", restoreState(App, state))

\* cap: the bound on the stored nodes under which the call is offered
AddState(action, cap) ==
    /\ Running
    /\ storedNodes < cap
    /\ HistCommit("addState", addState(Hist, App, action))

Undo ==
    /\ Running
    /\ HistCommit("undo", undo(Hist, App))

Redo ==
    /\ Running
    /\ HistCommit("redo", redo(Hist, App))

JumpToState(branch, time) ==
    /\ Running
    /\ HistCommit("jumpToState", jumpToState(Hist, App, branch, time))

\* cap: the bound on the archive's entries under which the call is offered
CollapseHistory(now, cap) ==
    /\ Running
    /\ Len(archivedHistory) < cap
    /\ HistCommit("collapseHistory", collapseHistory(Hist, App, now))

\* handleLoad: fromJSON on the parsed text of a saved project
FromJSON(data) ==
    /\ Running
    /\ HistCommit("fromJSON", historyFromJSON(Hist, App, data))

(***************************************************************************)
(* Spec: the history engine over a small scene (one object).               *)
(***************************************************************************)
Ids == {MintId(n) : n \in 1..MaxObjects}

Next ==
    \/ \E p \in Points : CreateInstance(p, MaxObjects)
    \/ \E id \in Ids : DeleteInstance(id)
    \/ \E id \in Ids, p \in Points : UpdateInstancePosition(id, p, MaxCoord)
    \/ \E a \in Labels : AddState(a, MaxNodes)
    \/ Undo
    \/ Redo
    \/ \E b \in 0..2, t \in 0..(MaxNodes - 1) : JumpToState(b, t)
    \/ \E now \in Times : CollapseHistory(now, MaxArchive)
    \/ FromJSON(historyToJSON(Hist, instances))

Spec == Init /\ [][Next]_vars

(***************************************************************************)
(* SpecScene: the scene graph on its own.                                  *)
(***************************************************************************)
SceneIds == {MintId(n) : n \in 1..MaxSceneObjects}

NextScene ==
    \/ \E p \in ScenePoints : CreateInstance(p, MaxSceneObjects)
    \/ \E id \in SceneIds : DeleteInstance(id)
    \/ \E c \in SceneIds, p \in SceneIds \cup {NULL} : SetParent(c, p, MaxCoord)
    \/ \E id \in SceneIds, p \in ScenePoints : UpdateInstancePosition(id, p, MaxCoord)
    \/ RestoreState(captureState(App))

SpecScene == Init /\ [][NextScene]_vars

(***************************************************************************)
(* SpecSnapshot: every mutator of AppState against stored snapshots.       *)
(***************************************************************************)
NextSnapshot ==
    \/ \E p \in Points : CreateInstance(p, MaxObjects)
    \/ \E id \in Ids : DeleteInstance(id)
    \/ DeleteInstances(selectedIds)
    \/ \E c \in Ids, p \in Ids \cup {NULL} : SetParent(c, p, MaxCoord)
    \/ \E id \in Ids, p \in Points : UpdateInstancePosition(id, p, MaxCoord)
    \/ \E id \in Ids : UpdateInstanceMode(id, "h", "absolute")
    \/ \E id \in Ids : ToggleAnchor(id)
    \/ \E id \in Ids : SelectInstance(id)
    \/ \E id \in Ids : ToggleSelection(id)
    \/ \E id \in Ids : AddToSelection(id)
    \/ ClearSelection
    \/ SetSelection(<<>>)
    \/ \E a \in Labels : AddState(a, MaxSnapNodes)
    \/ Undo
    \/ Redo

SpecSnapshot == Init /\ [][NextSnapshot]_vars

(***************************************************************************)
(* SpecArchive: the history engine with repeated collapses, over a scene   *)
(* that is empty or holds one entity at one place.                         *)
(***************************************************************************)
ArchivePoints == {[x |-> 1, y |-> 2]}

NextArchive ==
    \/ \E p \in ArchivePoints : CreateInstance(p, MaxObjects)
    \/ \E id \in Ids : DeleteInstance(id)
    \/ \E a \in Labels : AddState(a, MaxArchiveNodes)
    \/ Undo
    \/ Redo
    \/ \E b \in 0..1, t \in 0..2 : JumpToState(b, t)
    \/ \E now \in Times : CollapseHistory(now, MaxCollapses)

SpecArchive == Init /\ [][NextArchive]_vars

(***************************************************************************)
(* SpecLoad: loading project files.  The files offered are the history's   *)
(* own toJSON, that payload with its pointer moved past the tip of its     *)
(* branch or past the last branch, that payload with an empty grid, and a  *)
(* fresh one-node project written without an archivedHistory field.        *)
(***************************************************************************)
OwnPayload == historyToJSON(Hist, instances)

FreshPayload == [grid |-> InitialGrid(EmptyApp), pointer |-> [branch |-> 0, time |-> 0]]

\* a payload whose pointer names a node of its grid
wellFormed(data) == nodeExists(data.grid, data.pointer.branch, data.pointer.time)

Payloads ==
    IF ~Running THEN {}
    ELSE { OwnPayload,
           FreshPayload,
           [OwnPayload EXCEPT !.pointer.time = Len(grid[pointer.branch + 1])],
           [OwnPayload EXCEPT !.pointer.branch = Len(grid)],
           [OwnPayload EXCEPT !.grid = <<>>] }

NextLoad ==
    \/ \E p \in ArchivePoints : CreateInstance(p, MaxObjects)
    \/ \E id \in Ids : DeleteInstance(id)
    \/ \E a \in Labels : AddState(a, MaxLoadNodes)
    \/ Undo
    \/ Redo
    \/ \E now \in Times : CollapseHistory(now, MaxArchive)
    \/ \E data \in Payloads : FromJSON(data)

SpecLoad == Init /\ [][NextLoad]_vars

(***************************************************************************)
(* SpecMove: the scene graph with anchoring.                               *)
(***************************************************************************)
NextMove ==
    \/ \E p \in ScenePoints : CreateInstance(p, MaxSceneObjects)
    \/ \E id \in SceneIds : DeleteInstance(id)
    \/ \E c \in SceneIds, p \in SceneIds \cup {NULL} : SetParent(c, p, MaxCoord)
    \/ \E id \in SceneIds, p \in ScenePoints : UpdateInstancePosition(id, p, MaxCoord)
    \/ \E id \in SceneIds : ToggleAnchor(id)

SpecMove == Init /\ [][NextMove]_vars

(***************************************************************************)
(* SpecSelect: two entities of one drop point that are created, reparented *)
(* and deleted one at a time or by list, with checkpoints in a history of  *)
(* MaxSelectNodes nodes that is walked by undo, redo and jumpToState and   *)
(* collapsed.  The selection changes only through these calls.             *)
(***************************************************************************)
\* the lists handed to deleteInstances: any ids, absent and repeated included
IdLists ==
    {<<>>} \cup {<<i>> : i \in SceneIds} \cup {<<i, j>> : i \in SceneIds, j \in SceneIds}

NextSelect ==
    \/ \E p \in ArchivePoints : CreateInstance(p, MaxSceneObjects)
    \/ \E id \in SceneIds : DeleteInstance(id)
    \/ \E ids \in IdLists : DeleteInstances(ids)
    \/ \E c \in SceneIds, p \in SceneIds \cup {NULL} : SetParent(c, p, MaxCoord)
    \/ \E a \in Labels : AddState(a, MaxSelectNodes)
    \/ Undo
    \/ Redo
    \/ \E b \in 0..1, t \in 0..1 : JumpToState(b, t)
    \/ \E now \in Times : CollapseHistory(now, MaxArchive)

SpecSelect == Init /\ [][NextSelect]_vars

(***************************************************************************)
(* SpecCascade: MaxCascadeObjects entities of one drop point, created,     *)
(* reparented in every way and deleted one at a time or as the selection.  *)
(***************************************************************************)
CascadeIds == {MintId(n) : n \in 1..MaxCascadeObjects}

NextCascade ==
    \/ \E p \in ArchivePoints : CreateInstance(p, MaxCascadeObjects)
    \/ \E id \in CascadeIds : DeleteInstance(id)
    \/ DeleteInstances(selectedIds)
    \/ \E c \in CascadeIds, p \in CascadeIds \cup {NULL} : SetParent(c, p, MaxCoord)

SpecCascade == Init /\ [][NextCascade]_vars

(***************************************************************************)
(* SpecOrphan: the scene graph with snapshots that are loaded from a file. *)
(* Besides the application's own snapshot, the file offered holds one      *)
(* entity, obj-1 at local (1, 2), whose parentId names obj-2, an entity    *)
(* the file does not hold.                                                 *)
(***************************************************************************)
OrphanSnapshot ==
    [ instances     |-> <<toJSON([NewInstance(MintId(1), "square") EXCEPT
                                     !.localTransform = [x |-> 1, y |-> 2],
                                     !.parentId = MintId(2),
                                     !.label = MintId(1)])>>,
      selectedIds   |-> <<>>,
      objectCounter |-> 2 ]

LoadedStates == {captureState(App), OrphanSnapshot}

NextOrphan ==
    \/ \E p \in ScenePoints : CreateInstance(p, MaxSceneObjects)
    \/ \E id \in SceneIds : DeleteInstance(id)
    \/ \E c \in SceneIds, p \in SceneIds \cup {NULL} : SetParent(c, p, MaxCoord)
    \/ \E id \in SceneIds, p \in ScenePoints : UpdateInstancePosition(id, p, MaxCoord)
    \/ \E state \in LoadedStates : RestoreState(state)

SpecOrphan == Init /\ [][NextOrphan]_vars

(***************************************************************************)
(* Properties of the history engine, checked under Spec.                   *)
(***************************************************************************)
\* the snapshot a node stores, as plain data
nodeData(b, t) == snapshotData(grid[b + 1][t + 1].state, instances)

currentTimeline == grid[pointer.branch + 1]
atTip == pointer.time = Len(currentTimeline) - 1

\* the live scene differs from the snapshot under the pointer
liveChanged == captureState(App) # nodeData(pointer.branch, pointer.time)

\* C1: the grid always has at least one branch, every branch has at least
\* one node, and the pointer is a valid coordinate: its branch is an index
\* of the grid and its time an index of that branch, whatever sequence of
\* addState, undo, redo, jumpToState and collapseHistory has run.
C1_PointerValid ==
    /\ Len(grid) >= 1
    /\ \A b \in 1..Len(grid) : Len(grid[b]) >= 1
    /\ pointer.branch \in 0..(Len(grid) - 1)
    /\ pointer.time \in 0..(Len(grid[pointer.branch + 1]) - 1)

\* a collapse made while the pointer stood on a later branch
C1_Witness ==
    /\ lastOp.op = "collapseHistory"
    /\ Len(archivedHistory) = 1
    /\ Len(archivedHistory[1].grid) >= 2
    /\ Len(grid) = 1
    /\ pointer = [branch |-> 0, time |-> Len(grid[1]) - 1]
    /\ Len(grid[1]) >= 2

\* C2: addState with a changed state while the pointer (b, k) is inside its
\* timeline adds exactly one branch at the end of the grid; that branch is
\* nodes 0..k of branch b followed by the new {action, state}; the pointer
\* becomes (last branch, k + 1); every branch that existed, branch b and
\* its nodes after k included, is unchanged.
C2_BranchOnDivergence ==
    [][\A a \in Labels :
        (AddState(a, MaxNodes) /\ liveChanged /\ ~atTip) =>
            LET b == pointer.branch
                k == pointer.time
                n == Len(grid)
            IN  /\ Len(grid') = n + 1
                /\ \A i \in 1..n : grid'[i] = grid[i]
                /\ Len(grid'[n + 1]) = k + 2
                /\ \A j \in 1..(k + 1) : grid'[n + 1][j] = grid[b + 1][j]
                /\ grid'[n + 1][k + 2] = [action |-> a, state |-> captureState(App)]
                /\ pointer' = [branch |-> n, time |-> k + 1]
                /\ lastOp'.hn = 1]_vars

\* a state right after a fork made from the middle of a three-node timeline
C2_Witness ==
    /\ lastOp.op = "addState"
    /\ lastOp.hn = 1
    /\ Len(grid) = 2
    /\ Len(grid[1]) = 3
    /\ Len(grid[2]) = 3
    /\ pointer = [branch |-> 1, time |-> 2]
    /\ grid[2][2] = grid[1][2]
    /\ grid[2][3] # grid[1][3]

\* C3: addState with a changed state while the pointer is at the tip of its
\* timeline appends one node to that branch and advances the pointer's time
\* by one; the number of branches and every other branch are unchanged.
C3_AppendAtTip ==
    [][\A a \in Labels :
        (AddState(a, MaxNodes) /\ liveChanged /\ atTip) =>
            /\ grid' = [grid EXCEPT ![pointer.branch + 1] =
                            Append(@, [action |-> a, state |-> captureState(App)])]
            /\ pointer' = [pointer EXCEPT !.time = @ + 1]
            /\ lastOp'.hn = 1]_vars

\* a state right after a node was appended to the tip of a second branch
C3_Witness ==
    /\ lastOp.op = "addState"
    /\ lastOp.hn = 1
    /\ Len(grid) = 2
    /\ pointer.branch = 1
    /\ Len(grid[2]) = 3
    /\ Len(grid[1]) = 2
    /\ pointer.time = 2

\* C4: addState is a no-op when the captured state equals the snapshot
\* under the pointer: grid, pointer and archive stay as they are and no
\* listener is called, at the tip and inside a timeline alike; so an
\* addState that directly follows an addState appends nothing.
C4_NoOpWhenUnchanged ==
    [][\A a \in Labels :
        (AddState(a, MaxNodes) /\ (~liveChanged \/ lastOp.op = "addState")) =>
            /\ UNCHANGED histVars
            /\ lastOp'.hn = 0]_vars

\* an addState that did nothing, made inside a timeline
C4_Witness ==
    /\ lastOp.op = "addState"
    /\ lastOp.hn = 0
    /\ ~atTip
    /\ ~liveChanged
    /\ instances # <<>>

\* C5: undo with the pointer's time at 0, and redo with the pointer at the
\* tip of its branch, change nothing: pointer, grid and live scene stay as
\* they are, restoreState is not called and no listener is notified.
C5_UndoRedoNoOp ==
    [][((Undo /\ pointer.time = 0) \/ (Redo /\ atTip)) =>
            /\ UNCHANGED <<appVars, histVars>>
            /\ lastOp'.rn = 0
            /\ lastOp'.hn = 0
            /\ lastOp'.cn = 0
            /\ lastOp'.sn = 0]_vars

\* an undo at time 0 that did nothing while the live scene had moved on
C5_Witness ==
    /\ lastOp.op = "undo"
    /\ lastOp.hn = 0
    /\ pointer.time = 0
    /\ liveChanged
    /\ Len(currentTimeline) >= 2

\* C6: right after addState, and right after a successful undo, redo,
\* jumpToState or fromJSON, the capture of the live scene equals the
\* snapshot stored under the pointer.
C6_LiveEqualsPointer ==
    (\/ lastOp.op = "addState"
     \/ lastOp.op \in {"undo", "redo", "jumpToState", "fromJSON"} /\ lastOp.hn = 1)
        => ~lastOp.threw /\ ~liveChanged

\* a jump onto a second branch that restored a scene with an entity in it
C6_Witness ==
    /\ lastOp.op = "jumpToState"
    /\ lastOp.hn = 1
    /\ pointer.branch = 1
    /\ instances # <<>>
    /\ ~liveChanged

(***************************************************************************)
(* Properties of the stored snapshots, checked under SpecSnapshot.         *)
(***************************************************************************)
\* C7: a stored history node is immutable with respect to live mutation:
\* no create, delete, move, reparent, render-mode, anchor or selection
\* operation on the live scene, and no restore of a snapshot followed by
\* such operations, changes the value of any snapshot the grid stores.
C7_SnapshotsImmutable ==
    [][lastOp'.op # "addState" =>
            plainGrid(grid', instances') = plainGrid(grid, instances)]_vars

\* undo restored the first node while a later node holds an entity, and an
\* entity has since been created in the restored scene
C7_Witness ==
    /\ Len(grid) = 1
    /\ Len(grid[1]) = 2
    /\ pointer = [branch |-> 0, time |-> 0]
    /\ Len(grid[1][2].state.instances) = 1
    /\ lastOp.op = "createInstance"
    /\ instances # <<>>
    /\ captureState(App) # nodeData(0, 1)
    /\ liveChanged

(***************************************************************************)
(* Properties of the scene graph, checked under SpecScene.                 *)
(***************************************************************************)
\* the ids the children lists of the entities in S name
childrenOf(insts, S) ==
    UNION {{insts[i].children[k] : k \in 1..Len(insts[i].children)} :
              i \in {j \in 1..Len(insts) : insts[j].id \in S}}

RECURSIVE closure(_, _, _)
closure(insts, S, n) ==
    IF n = 0 THEN S ELSE closure(insts, S \cup childrenOf(insts, S), n - 1)

\* id and every id below it along the children lists
subtree(insts, id) == closure(insts, {id}, Len(insts))

\* the live entity an id resolves to, as an option
resolve(insts, id) ==
    IF findIndex(insts, id) = 0 THEN <<>> ELSE <<insts[findIndex(insts, id)]>>

\* C8: after deleteInstance(id) returns true, neither id nor any id that
\* was in id's subtree resolves to a live entity, for every forest shape
\* and every creation and reparent order of the entities.
C8_DeleteCascades ==
    [][\A id \in SceneIds :
        (DeleteInstance(id) /\ lastOp'.ret) =>
            \A d \in subtree(instances, id) : resolve(instances', d) = <<>>]_vars

\* C9: after any sequence of createInstance, setParent,
\* updateInstancePosition, deleteInstance and restoreState, every live
\* entity's cached worldTransform equals its localTransform if it is a
\* root, and its parent's worldTransform plus its localTransform otherwise.
C9_TransformFold ==
    Running =>
        \A i \in 1..Len(instances) :
            LET e == instances[i]
                parent == IF Truthy(e.parentId) THEN resolve(instances, e.parentId) ELSE <<>>
            IN  IF parent = <<>>
                THEN e.worldTransform = e.localTransform
                ELSE e.worldTransform =
                        [x |-> parent[1].worldTransform.x + e.localTransform.x,
                         y |-> parent[1].worldTransform.y + e.localTransform.y]

RECURSIVE ancestorAt(_, _, _)
ancestorAt(insts, id, k) ==
    IF k = 0 THEN id
    ELSE LET e == resolve(insts, id)
         IN  IF e = <<>> THEN NULL ELSE ancestorAt(insts, e[1].parentId, k - 1)

\* C11: the parent/children relation stays a forest: after any sequence of
\* createInstance, setParent and deleteInstance, following parentId links
\* from an entity never returns to that entity, setParent(x, x) and
\* setParent(x, d) with d a descendant of x included.
C11_Forest ==
    \A i \in 1..Len(instances) :
        \A k \in 1..Len(instances) :
            ancestorAt(instances, instances[i].id, k) # instances[i].id

(***************************************************************************)
(* Collapse, archive and load, checked under Spec.                         *)
(***************************************************************************)
\* C12: collapseHistory appends exactly one entry to archivedHistory, the
\* entry's grid equal to the whole grid before the call; the grid becomes
\* the single branch of nodes 0..pointer.time of the branch that was
\* active; the pointer becomes (0, last index of that branch).
C12_CollapseResult ==
    [][\A now \in Times :
        CollapseHistory(now, MaxArchive) =>
            LET n == Len(archivedHistory)
                k == pointer.time
            IN  /\ Len(archivedHistory') = n + 1
                /\ \A i \in 1..n : archivedHistory'[i] = archivedHistory[i]
                /\ plainGrid(archivedHistory'[n + 1].grid, instances')
                        = plainGrid(grid, instances)
                /\ Len(archivedHistory'[n + 1].grid) = Len(grid)
                /\ Len(grid') = 1
                /\ Len(grid'[1]) = k + 1
                /\ \A j \in 1..(k + 1) : grid'[1][j] = currentTimeline[j]
                /\ pointer' = [branch |-> 0, time |-> k]]_vars

\* right after a collapse made on the second of two branches with the
\* pointer one node before that branch's tip
C12_Witness ==
    /\ lastOp.op = "collapseHistory"
    /\ Len(archivedHistory) = 1
    /\ Len(archivedHistory[1].grid) = 2
    /\ Len(archivedHistory[1].grid[2]) = 3
    /\ Len(grid) = 1
    /\ grid[1] = SubSeq(archivedHistory[1].grid[2], 1, 2)
    /\ pointer = [branch |-> 0, time |-> 1]

\* an archive entry as data
archiveData(arch, insts) ==
    [i \in 1..Len(arch) |-> [arch[i] EXCEPT !.grid = plainGrid(@, insts)]]

\* C13: archivedHistory is append-only: no addState (append or branch),
\* undo, redo, jumpToState or further collapseHistory changes the grid,
\* message or timestamp of an entry already archived, and entries are
\* never removed or reordered.
C13_ArchiveAppendOnly ==
    [][/\ Len(archivedHistory') >= Len(archivedHistory)
       /\ \A i \in 1..Len(archivedHistory) :
            archiveData(archivedHistory', instances')[i]
                = archiveData(archivedHistory, instances)[i]]_vars

\* right after a second collapse, the second entry holding a branch that
\* was forked after the first entry was archived
C13_Witness ==
    /\ lastOp.op = "collapseHistory"
    /\ Len(archivedHistory) = 2
    /\ Len(archivedHistory[2].grid) = 2
    /\ archivedHistory[1] # archivedHistory[2]

\* the live scene after the step, as captureState would return it
captureNext ==
    captureState([instances |-> instances', selectedIds |-> selectedIds',
                  objectCounter |-> objectCounter'])

\* C14: fromJSON(toJSON()) on an unchanged history reproduces the same
\* grid, pointer and archivedHistory, leaves the live entities, selection
\* and objectCounter equal by value to the snapshot under the restored
\* pointer, and calls the history listeners.
C14_RoundTrip ==
    [][FromJSON(historyToJSON(Hist, instances)) =>
            /\ plainGrid(grid', instances') = plainGrid(grid, instances)
            /\ pointer' = pointer
            /\ archiveData(archivedHistory', instances')
                    = archiveData(archivedHistory, instances)
            /\ captureNext = nodeData(pointer.branch, pointer.time)
            /\ ~lastOp'.threw
            /\ lastOp'.rn = 1
            /\ lastOp'.hn = 1]_vars

\* right after a load into a history with an archive entry, two branches
\* and an entity in the snapshot under the pointer
C14_Witness ==
    /\ lastOp.op = "fromJSON"
    /\ lastOp.hn = 1
    /\ Len(archivedHistory) = 1
    /\ Len(grid) = 2
    /\ pointer.branch = 1
    /\ instances # <<>>
    /\ ~liveChanged

(***************************************************************************)
(* Loading, checked under SpecLoad.                                        *)
(***************************************************************************)
\* C15: loading a structurally invalid payload (a pointer that names no
\* node of the payload's grid, an empty grid) is rejected atomically:
\* fromJSON fails, and grid, pointer, archivedHistory and the live scene
\* are left exactly as they were before the call.
C15_RejectAtomically ==
    [][\A data \in Payloads :
        (FromJSON(data) /\ ~wellFormed(data)) =>
            /\ lastOp'.threw
            /\ UNCHANGED <<appVars, histVars>>]_vars

(***************************************************************************)
(* Navigation, checked under SpecArchive.                                   *)
(***************************************************************************)
\* the call changed nothing and notified no one
nothingHappened ==
    /\ UNCHANGED <<appVars, histVars>>
    /\ lastOp'.hn = 0
    /\ lastOp'.cn = 0
    /\ lastOp'.sn = 0
    /\ lastOp'.rn = 0

\* C16: jumpToState(b, t) sets the pointer to exactly (b, t) and restores
\* that node's snapshot if and only if grid[b][t] exists, on any branch;
\* for every other (b, t) the pointer, grid, archive and live scene are
\* unchanged and no listener is notified.
C16_JumpIffExists ==
    [][lastOp'.op = "jumpToState" =>
       \A b \in 0..1, t \in 0..2 :
        JumpToState(b, t) =>
            IF b < Len(grid) /\ t < Len(grid[b + 1])
            THEN /\ pointer' = [branch |-> b, time |-> t]
                 /\ captureNext = nodeData(b, t)
                 /\ plainGrid(grid', instances') = plainGrid(grid, instances)
                 /\ archiveData(archivedHistory', instances')
                        = archiveData(archivedHistory, instances)
                 /\ lastOp'.rn = 1
                 /\ lastOp'.hn = 1
            ELSE nothingHappened]_vars

\* right after a jump that landed inside the first branch while a second
\* branch exists and the restored scene holds an entity
C16_Witness ==
    /\ lastOp.op = "jumpToState"
    /\ lastOp.hn = 1
    /\ Len(grid) = 2
    /\ pointer.branch = 0
    /\ pointer.time >= 1
    /\ ~atTip
    /\ instances # <<>>

\* the last call was collapseHistory
collapsed == lastOp.op = "collapseHistory"

\* only undo has run since a collapse left the single retained branch
steppingBack ==
    /\ lastOp.op = "undo"
    /\ Len(grid) = 1
    /\ archivedHistory # <<>>

\* C17: after collapseHistory the discarded structure is out of reach of
\* navigation: redo is a no-op, jumpToState(b, t) is a no-op for every
\* b >= 1 and every t beyond the collapsed branch, and undo still steps
\* back through the retained prefix, one node per call, down to time 0.
C17_CollapsedUnreachable ==
    [][/\ (collapsed /\ Redo) => nothingHappened
       /\ (collapsed /\ lastOp'.op = "jumpToState") =>
            \A b \in 0..1, t \in 0..2 :
                (JumpToState(b, t) /\ (b >= 1 \/ t > pointer.time)) => nothingHappened
       /\ ((collapsed \/ steppingBack) /\ Undo /\ pointer.time > 0) =>
            /\ pointer' = [branch |-> 0, time |-> pointer.time - 1]
            /\ captureNext = nodeData(0, pointer.time - 1)
            /\ grid' = grid
            /\ lastOp'.hn = 1]_vars

\* undo has stepped back to time 0 of the retained two-node prefix of a
\* collapsed two-branch grid
C17_Witness ==
    /\ steppingBack
    /\ lastOp.hn = 1
    /\ pointer = [branch |-> 0, time |-> 0]
    /\ Len(grid[1]) = 2
    /\ Len(archivedHistory[1].grid) = 2
    /\ \E b \in 1..2 : Len(archivedHistory[1].grid[b]) = 3
                        /\ grid[1] = SubSeq(archivedHistory[1].grid[b], 1, 2)

(***************************************************************************)
(* Moving entities, checked under SpecMove.                                *)
(***************************************************************************)
\* C18: updateInstancePosition(id, x, y) returns false and changes nothing
\* (no localTransform, no worldTransform, no change notification) when id
\* does not resolve or the entity is anchored.
C18_MoveRefused ==
    [][lastOp'.op = "updateInstancePosition" =>
       \A id \in SceneIds, p \in ScenePoints :
        (/\ UpdateInstancePosition(id, p, MaxCoord)
         /\ \/ resolve(instances, id) = <<>>
            \/ resolve(instances, id)[1].anchored) =>
            /\ ~lastOp'.ret
            /\ UNCHANGED appVars
            /\ lastOp'.cn = 0
            /\ lastOp'.sn = 0]_vars

\* a refused move in a scene whose two entities are both anchored
C18_Witness ==
    /\ lastOp.op = "updateInstancePosition"
    /\ ~lastOp.ret
    /\ Len(instances) = 2
    /\ \A i \in 1..2 : instances[i].anchored
    /\ \A id \in SceneIds : resolve(instances, id) # <<>>

\* C19: after a successful updateInstancePosition(id, x, y), in any state
\* reachable through the mutators, the entity's world transform is
\* exactly (x, y).
C19_MoveReachesTarget ==
    [][lastOp'.op = "updateInstancePosition" =>
       \A id \in SceneIds, p \in ScenePoints :
        (UpdateInstancePosition(id, p, MaxCoord) /\ lastOp'.ret) =>
            resolve(instances', id)[1].worldTransform = p]_vars

\* world transform of entity i after the step minus the one before
delta(i) ==
    [x |-> instances'[i].worldTransform.x - instances[i].worldTransform.x,
     y |-> instances'[i].worldTransform.y - instances[i].worldTransform.y]

C21_SetParentRefused ==
    [][lastOp'.op = "setParent" =>
       \A c \in SceneIds, p \in SceneIds \cup {NULL} :
        (/\ SetParent(c, p, MaxCoord)
         /\ \/ resolve(instances, c) = <<>>
            \/ p # NULL /\ resolve(instances, p) = <<>>) =>
            /\ ~lastOp'.ret
            /\ UNCHANGED appVars
            /\ lastOp'.cn = 0
            /\ lastOp'.sn = 0]_vars

\* a refused setParent in a scene of one entity that has been moved
C21_Witness ==
    /\ lastOp.op = "setParent"
    /\ ~lastOp.ret
    /\ Len(instances) = 1
    /\ instances[1].parentId = NULL
    /\ instances[1].worldTransform = [x |-> 3, y |-> 1]

\* C22: an anchored object cannot be moved: while an entity's anchored flag
\* is true, no updateInstancePosition call, on it or on any other entity,
\* changes its world transform.
C22_AnchoredStays ==
    [][lastOp'.op = "updateInstancePosition" =>
       \A i \in 1..Len(instances) :
        instances[i].anchored =>
            /\ i <= Len(instances')
            /\ instances'[i].id = instances[i].id
            /\ instances'[i].worldTransform = instances[i].worldTransform]_vars

\* C23: createInstance(x, y) always succeeds: it increments the counter by
\* exactly one, adds exactly one new root entity with id "obj-" + the new
\* counter value, no parent, no children and localTransform =
\* worldTransform = (x, y), leaves all existing entities unchanged, and
\* replaces the selection with exactly the new id.
C23_CreateInstance ==
    [][lastOp'.op = "createInstance" =>
       \A p \in ScenePoints :
        CreateInstance(p, MaxSceneObjects) =>
            LET n == Len(instances) + 1
                id == MintId(objectCounter + 1)
            IN  /\ lastOp'.ret
                /\ ~lastOp'.threw
                /\ objectCounter' = objectCounter + 1
                /\ Len(instances') = n
                /\ SubSeq(instances', 1, n - 1) = instances
                /\ resolve(instances, id) = <<>>
                /\ instances'[n].id = id
                /\ instances'[n].parentId = NULL
                /\ instances'[n].children = <<>>
                /\ instances'[n].localTransform = p
                /\ instances'[n].worldTransform = p
                /\ selectedIds' = <<id>>]_vars

\* a second entity created next to an anchored, moved and selected one
C23_Witness ==
    /\ lastOp.op = "createInstance"
    /\ Len(instances) = 2
    /\ instances[1].anchored
    /\ instances[1].worldTransform # instances[2].worldTransform
    /\ selectedIds = <<instances[2].id>>

\* C24: deleteInstances(ids) returns the number of entities actually removed
\* from the entity collection by the call, for every list of ids, lists
\* with an entity and one of its descendants, absent ids or repeated ids
\* included.
C24_DeletedCount ==
    [][lastOp'.op = "deleteInstances" =>
       \A ids \in IdLists :
        DeleteInstances(ids) =>
            lastOp'.ret = Len(instances) - Len(instances')]_vars

\* the id is the id of an entity in a snapshot the grid stores
storedId(id) ==
    \E b \in 1..Len(grid) : \E t \in 1..Len(grid[b]) :
        resolve(snapshotData(grid[b][t].state, instances).instances, id) # <<>>

\* C25: entity ids are never reused: over any sequence of createInstance,
\* deleteInstance, addState, undo, redo and jumpToState the counter never
\* decreases and createInstance never mints an id that was minted before
\* (here: an id that a stored snapshot already holds).
C25_IdsNeverReused ==
    [][/\ objectCounter' >= objectCounter
       /\ lastOp'.op = "createInstance" /\ objectCounter' # objectCounter =>
            ~storedId(MintId(objectCounter'))]_vars

(***************************************************************************)
(* The callbacks of the history, checked under Spec.                       *)
(***************************************************************************)
\* one run of every callback, in the order of registration, each finding
\* the history and the application as the call leaves them
notifiedOnce ==
    [i \in 1..Len(Listeners) |->
        [listener |-> Listeners[i],
         saw |-> [pointer       |-> pointer',
                  branches      |-> Len(grid'),
                  archives      |-> Len(archivedHistory'),
                  objectCounter |-> objectCounter',
                  entities      |-> Len(instances')]]]

\* C26: history listeners are notified exactly once, after the change, in
\* registration order, for every addState that appends or branches and for
\* every successful undo, redo, jumpToState, collapseHistory and fromJSON;
\* they are never notified on a no-op path: addState with unchanged state,
\* undo at time 0, redo at the tip, jumpToState to a nonexistent coordinate.
C26_NotifiedOnce ==
    [][/\ lastOp'.op = "addState" =>
            lastOp'.calls = IF liveChanged THEN notifiedOnce ELSE <<>>
       /\ lastOp'.op = "undo" =>
            lastOp'.calls = IF pointer.time > 0 THEN notifiedOnce ELSE <<>>
       /\ lastOp'.op = "redo" =>
            lastOp'.calls = IF atTip THEN <<>> ELSE notifiedOnce
       /\ lastOp'.op = "jumpToState" =>
            \A b \in 0..2, t \in 0..(MaxNodes - 1) :
                \/ lastOp'.calls = IF b < Len(grid) /\ t < Len(grid[b + 1])
                                   THEN notifiedOnce ELSE <<>>
                \/ ~JumpToState(b, t)
       /\ lastOp'.op = "collapseHistory" => lastOp'.calls = notifiedOnce
       /\ lastOp'.op = "fromJSON" /\ ~lastOp'.threw => lastOp'.calls = notifiedOnce
       /\ lastOp'.calls # <<>> => lastOp'.hn = 1]_vars

\* the callbacks ran, first then second, after an undo that emptied the scene
\* while the grid keeps a second branch
C26_Witness ==
    /\ lastOp.op = "undo"
    /\ Len(lastOp.calls) = 2
    /\ lastOp.calls[1].listener = "first"
    /\ lastOp.calls[2].listener = "second"
    /\ lastOp.calls[2].saw.pointer = pointer
    /\ lastOp.calls[2].saw.entities = 0
    /\ Len(grid) = 2
    /\ instances = <<>>

(***************************************************************************)
(* Dangling parents, checked under SpecOrphan.                             *)
(***************************************************************************)
\* the entity at index i names a parent that is not a live entity
dangling(insts, i) ==
    /\ Truthy(insts[i].parentId)
    /\ resolve(insts, insts[i].parentId) = <<>>

\* C27: updateWorldTransforms treats an entity whose parentId is set but
\* does not resolve to a live entity as a root: after the pass, the pass
\* run by restoreState on a loaded snapshot included, the world transform
\* of such an entity equals its local transform.
C27_DanglingIsRoot ==
    (/\ lastOp.op \in {"restoreState", "updateInstancePosition", "setParent"}
     /\ lastOp.ret = TRUE
     /\ ~lastOp.threw) =>
        \A i \in 1..Len(instances) :
            dangling(instances, i) =>
                instances[i].worldTransform = instances[i].localTransform

(***************************************************************************)
(* Termination, checked under SpecScene, and the shape of the children     *)
(* lists, checked under SpecMove.                                          *)
(***************************************************************************)
\* C28: every core operation terminates in every state reachable through
\* the mutators: updateWorldTransforms, and with it setParent,
\* updateInstancePosition and restoreState, and the recursive
\* deleteInstance return after finitely many steps, also after setParent
\* was called with a parent that is the child itself or one of its
\* descendants.  No call ends in an endless recursion.
C28_Terminates == ~lastOp.threw

\* a move that returned while the two entities are each other's parent
C28_Witness ==
    /\ lastOp.op = "updateInstancePosition"
    /\ lastOp.ret = TRUE
    /\ Len(instances) = 2
    /\ instances[1].parentId = instances[2].id
    /\ instances[2].parentId = instances[1].id
    /\ instances[1].children = <<instances[2].id>>

\* C29: after any sequence of createInstance, setParent and deleteInstance
\* calls, no children list contains a duplicate id and no id appears in
\* the children lists of two different entities.
C29_ChildrenDisjoint ==
    /\ \A i \in 1..Len(instances) :
        \A m, n \in 1..Len(instances[i].children) :
            m # n => instances[i].children[m] # instances[i].children[n]
    /\ \A i, j \in 1..Len(instances) :
        i # j =>
            \A m \in 1..Len(instances[i].children) :
                ~includes(instances[j].children, instances[i].children[m])

\* right after a setParent that left each of two entities in the other's
\* children list
C29_Witness ==
    /\ lastOp.op = "setParent"
    /\ lastOp.ret = TRUE
    /\ Len(instances) = 2
    /\ instances[1].children = <<instances[2].id>>
    /\ instances[2].children = <<instances[1].id>>

(***************************************************************************)
(* The selection, checked under SpecCascade.                               *)
(***************************************************************************)
\* C30: after any sequence of createInstance, setParent, deleteInstance,
\* deleteInstances, undo, redo and jumpToState calls, the selection being
\* changed only by those operations, every id in selectedIds references a
\* live entity; in particular after deleteInstance(id) neither id nor any
\* id of its deleted descendants remains in selectedIds.
C30_SelectionLive ==
    \A k \in 1..Len(selectedIds) : resolve(instances, selectedIds[k]) # <<>>

(***************************************************************************)
(* The frame of deleteInstance and what its listeners find, checked under  *)
(* SpecCascade.                                                            *)
(***************************************************************************)
\* C31: deleteInstance(id) affects only id's subtree: every entity that is
\* neither id nor a descendant of id is still in the collection afterwards
\* with unchanged parentId, localTransform, worldTransform and anchored
\* flag, and the only children list that changes among them is that of
\* id's former parent, which loses exactly id.  deleteInstance of an absent
\* id returns false and changes nothing.
C31_DeleteFrame ==
    [][lastOp'.op = "deleteInstance" =>
       \A id \in CascadeIds :
        DeleteInstance(id) =>
            IF resolve(instances, id) = <<>>
            THEN /\ lastOp'.ret = FALSE
                 /\ UNCHANGED appVars
                 /\ lastOp'.cn = 0
                 /\ lastOp'.sn = 0
            ELSE \A i \in 1..Len(instances) :
                    instances[i].id \notin subtree(instances, id) =>
                        LET before == instances[i]
                            after  == resolve(instances', before.id)
                        IN  /\ after # <<>>
                            /\ after[1].parentId = before.parentId
                            /\ after[1].localTransform = before.localTransform
                            /\ after[1].worldTransform = before.worldTransform
                            /\ after[1].anchored = before.anchored
                            /\ after[1].children =
                                   IF before.id = resolve(instances, id)[1].parentId
                                   THEN filterOut(before.children, id)
                                   ELSE before.children]_vars

\* C32: change listeners only ever observe fully applied mutations: at
\* every moment a change or selection listener is invoked, and so could
\* call captureState, the triggering mutator has completed; during
\* deleteInstance of an entity with descendants no listener runs while part
\* of the subtree is already removed and the rest is still in the
\* collection.
C32_ListenersSeeWhole == ~lastOp.torn

(***************************************************************************)
(* The shape of the history over time, checked under Spec and SpecArchive. *)
(***************************************************************************)
\* the node the HistoryManager constructor stores
initialNode ==
    [action |-> "Initial State",
     state  |-> [instances |-> <<>>, selectedIds |-> <<>>, objectCounter |-> 0]]

\* C33: grid[0][0] is always the initial snapshot: a freshly constructed
\* AppState has exactly one branch with the single node (action "Initial
\* State", no entities, empty selection, counter 0) and pointer (0, 0), the
\* constructor's extra addState being a no-op; and after any sequence of
\* addState, undo, redo, jumpToState and collapseHistory node 0 of every
\* branch still equals that initial node.
C33_InitialNodeKept ==
    /\ lastOp.op = "constructor" =>
        /\ Len(grid) = 1
        /\ Len(grid[1]) = 1
        /\ pointer = [branch |-> 0, time |-> 0]
        /\ lastOp.hn = 0
    /\ \A b \in 1..Len(grid) :
        /\ grid[b] # <<>>
        /\ grid[b][1].action = initialNode.action
        /\ nodeData(b - 1, 0) = initialNode.state

\* a second branch made after a collapse, the scene holding an entity
C33_Witness ==
    /\ lastOp.op = "addState"
    /\ Len(grid) = 2
    /\ pointer.branch = 1
    /\ archivedHistory # <<>>
    /\ instances # <<>>

\* C34: undo and redo move only along the active branch and never alter
\* history: a successful undo decreases pointer.time by exactly 1, a
\* successful redo increases it by exactly 1, and neither changes
\* pointer.branch, any node of the grid, the number of branches or
\* archivedHistory.
C34_UndoRedoStep ==
    [][/\ (lastOp'.op = "undo" /\ pointer.time > 0) =>
            pointer' = [branch |-> pointer.branch, time |-> pointer.time - 1]
       /\ (lastOp'.op = "redo" /\ ~atTip) =>
            pointer' = [branch |-> pointer.branch, time |-> pointer.time + 1]
       /\ lastOp'.op \in {"undo", "redo"} =>
            /\ Len(grid') = Len(grid)
            /\ plainGrid(grid', instances') = plainGrid(grid, instances)
            /\ archiveData(archivedHistory', instances')
                   = archiveData(archivedHistory, instances)]_vars

\* a redo inside the second branch that stopped one node short of its tip,
\* with an archive in place
C34_Witness ==
    /\ lastOp.op = "redo"
    /\ lastOp.hn = 1
    /\ pointer.branch = 1
    /\ pointer.time = Len(currentTimeline) - 2
    /\ archivedHistory # <<>>

\* C35: between collapses and loads the grid is append-only: addState,
\* undo, redo and jumpToState never remove a branch, never shorten a branch
\* and never change the value of an existing node at any coordinate (b, t);
\* so every node that ever existed since the last collapse stays at the
\* same coordinate, where jumpToState(b, t) reaches it.
C35_GridAppendOnly ==
    [][lastOp'.op \in {"addState", "undo", "redo", "jumpToState"} =>
        /\ Len(grid') >= Len(grid)
        /\ \A b \in 1..Len(grid) :
            /\ Len(grid'[b]) >= Len(grid[b])
            /\ \A t \in 1..Len(grid[b]) :
                /\ nodeExists(grid', b - 1, t - 1)
                /\ grid'[b][t].action = grid[b][t].action
                /\ snapshotData(grid'[b][t].state, instances')
                       = snapshotData(grid[b][t].state, instances)]_vars

\* an addState that forked a second branch off a first branch of three or
\* more nodes, nothing archived
C35_Witness ==
    /\ lastOp.op = "addState"
    /\ lastOp.hn = 1
    /\ Len(grid) = 2
    /\ Len(grid[1]) >= 3
    /\ pointer.branch = 1
    /\ Len(grid[2]) = 2
    /\ archivedHistory = <<>>

\* the history and the application as a HistoryManager call that returned
\* hr leaves them
historyAfter(hr) ==
    [grid            |-> retireGrid(hr.grid, hr.app.dead),
     pointer         |-> hr.pointer,
     archivedHistory |-> retireArchive(hr.archivedHistory, hr.app.dead)]

appAfter(hr) ==
    [instances     |-> hr.app.instances,
     selectedIds   |-> hr.app.selectedIds,
     objectCounter |-> hr.app.objectCounter]

\* undo() followed by redo(), called now
undone == undo(Hist, App)

redone == redo(historyAfter(undone), appAfter(undone))

C37_LinksConsistent ==
    /\ \A i \in 1..Len(instances) :
        LET P == resolve(instances, instances[i].parentId)
        IN  (Truthy(instances[i].parentId) /\ P # <<>>) =>
                includes(P[1].children, instances[i].id)
    /\ \A i \in 1..Len(instances) :
        \A k \in 1..Len(instances[i].children) :
            LET E == resolve(instances, instances[i].children[k])
            IN  E # <<>> => E[1].parentId = instances[i].id

\* C38: no two live entities ever share an id, and every live entity's id
\* number is at most the current objectCounter, after any sequence of
\* createInstance, deleteInstance, addState, undo, redo, jumpToState and
\* collapseHistory; so the next createInstance never collides with a live
\* entity.
C38_LiveIdsUnique ==
    /\ \A i, j \in 1..Len(instances) :
        i # j => instances[i].id # instances[j].id
    /\ \A i \in 1..Len(instances) :
        \E n \in 1..objectCounter : instances[i].id = MintId(n)
    /\ resolve(instances, MintId(objectCounter + 1)) = <<>>

\* two entities created after an undo took the counter back to 0, while the
\* node ahead still stores an entity under the same id
C38_Witness ==
    /\ lastOp.op = "createInstance"
    /\ Len(instances) = 2
    /\ pointer.time = 0
    /\ Len(currentTimeline) = 2
    /\ storedId(instances[1].id)

(***************************************************************************)
(* SpecTree: scenes of up to MaxCascadeObjects entities at different       *)
(* positions, reparented, moved and deleted.                               *)
(***************************************************************************)
NextTree ==
    \/ \E p \in ScenePoints : CreateInstance(p, MaxCascadeObjects)
    \/ \E id \in CascadeIds : DeleteInstance(id)
    \/ \E c \in CascadeIds, p \in CascadeIds \cup {NULL} : SetParent(c, p, MaxCoord)
    \/ \E id \in CascadeIds, p \in ScenePoints : UpdateInstancePosition(id, p, MaxCoord)

SpecTree == Init /\ [][NextTree]_vars

\* every entity's worldTransform is what updateRecursive computes for it from
\* its localTransform and the worldTransform of the entity its parentId
\* resolves to
folded(insts) ==
    \A i \in 1..Len(insts) :
        LET e == insts[i]
            parent == IF Truthy(e.parentId) THEN resolve(insts, e.parentId) ELSE <<>>
        IN  e.worldTransform = computeWorldTransform(e,
                IF parent = <<>> THEN <<>> ELSE <<parent[1].worldTransform>>).worldTransform

C40_CollapseFrame ==
    [][lastOp'.op = "collapseHistory" =>
        /\ UNCHANGED appVars
        /\ lastOp'.rn = 0
        /\ lastOp'.cn = 0
        /\ lastOp'.sn = 0
        /\ grid'[pointer'.branch + 1][pointer'.time + 1]
             = grid[pointer.branch + 1][pointer.time + 1]
        /\ nodeData(pointer.branch, pointer.time)'
             = nodeData(pointer.branch, pointer.time)]_vars

\* right after a collapse from inside a later branch of a grid of several
\* branches, the live scene differing from the snapshot under the pointer
C40_Witness ==
    /\ lastOp.op = "collapseHistory"
    /\ Len(archivedHistory) = 1
    /\ Len(archivedHistory[1].grid) > 1
    /\ pointer.time > 0
    /\ grid[1] # archivedHistory[1].grid[1]
    /\ liveChanged

====
